---- MODULE Spec2Model ----
(***************************************************************************)
(* Model of the MultiAgentIntelligence server: the in-memory store         *)
(* (server/storage.ts, class MemStorage) and the upload route with its     *)
(* background run processFileWithAI (server/routes.ts).                    *)
(*                                                                         *)
(* One step of the model is one synchronous stretch of JavaScript: the     *)
(* code between two awaits, or one event-handler invocation.  Runs of      *)
(* different documents interleave at these points.                         *)
(*                                                                         *)
(* The child process the run spawns (server/ai_system.py) is modelled from *)
(* the design of the Action Router; it has a specification of its own,     *)
(* RouterSpec.                                                             *)
(***************************************************************************)
EXTENDS Integers, Sequences, FiniteSets, TLC

\* ------------------------------------------------------------------ bounds
\* Upload requests the transport delivers (accepted or rejected).
MaxRequests == 2
\* Largest value of the clock read by new Date().
MaxTime == 1
\* Operations (upload requests and direct calls of IStorage) in the
\* specification of the store.
MaxCalls == 3
\* Largest exit code of the child process.
MaxExitCode == 1

\* ------------------------------------------------------------ JS values
\* null is the empty tuple; a present value v of a nullable field is <<v>>.
Null == <<>>
Some(v) == <<v>>

\* JS object spread {...a, ...b}: the keys of b win.
Spread(a, b) == b @@ a

\* ---------------------------------------------------------- file names
\* originalname as the transport hands it over, a sequence of characters.
FileNames ==
    { <<"a", ".", "p", "d", "f">>,
      <<"A", ".", "P", "D", "F">>,
      <<"m", ".", "e", "m", "l">>,
      <<"m", ".", "m", "s", "g">>,
      <<"d", ".", "j", "s", "o", "n">>,
      <<"n", ".", "t", "x", "t">>,
      <<"R", "E", "A", "D">> }

\* req.file.size of the uploads of the model, in bytes.
UploadSizes == {2048}

\* The contents the upload requests of the model carry, named by what their
\* first bytes are: the signature of a PDF file ("%PDF-") or of no format.
UploadSignatures == {"PDF", "none"}

\* The names the upload requests of the model carry.
UploadNames ==
    { <<"a", ".", "p", "d", "f">>,
      <<"m", ".", "E", "M", "L">>,
      <<"n", ".", "t", "x", "t">> }

UpperChars == <<"A", "D", "E", "F", "G", "J", "L", "M", "N", "O", "P", "R", "S", "T", "X">>
LowerChars == <<"a", "d", "e", "f", "g", "j", "l", "m", "n", "o", "p", "r", "s", "t", "x">>

\* String.prototype.toLowerCase, character by character.
LowerChar(c) ==
    IF \E i \in 1..Len(UpperChars) : UpperChars[i] = c
    THEN LowerChars[CHOOSE i \in 1..Len(UpperChars) : UpperChars[i] = c]
    ELSE c

toLowerCase(s) == [i \in 1..Len(s) |-> LowerChar(s[i])]

\* path.extname: from the last "." of the name to its end; empty when the
\* name has no "." or its only "." is the first character.
extname(name) ==
    LET dots == {i \in 1..Len(name) : name[i] = "."}
    IN  IF dots = {} THEN <<>>
        ELSE LET last == CHOOSE i \in dots : \A j \in dots : j <= i
             IN  IF last = 1 THEN <<>> ELSE SubSeq(name, last, Len(name))

\* routes.ts 21-32: the file type of an upload, "unknown" when the handler
\* answers 400.
FileTypeOf(originalname) ==
    LET fileExtension == toLowerCase(extname(originalname))
    IN  IF fileExtension \in {<<".", "p", "d", "f">>} THEN "PDF"
        ELSE IF fileExtension \in {<<".", "e", "m", "l">>, <<".", "m", "s", "g">>} THEN "Email"
        ELSE IF fileExtension \in {<<".", "j", "s", "o", "n">>} THEN "JSON"
        ELSE "unknown"

\* ------------------------------------------------------------------ state
VARIABLES
    currentId,        \* MemStorage.currentId
    users,            \* MemStorage.users            : id -> User
    processedFiles,   \* MemStorage.processedFiles   : id -> ProcessedFile
    agentActivities,  \* MemStorage.agentActivities  : id -> AgentActivity
    triggeredActions, \* MemStorage.triggeredActions : id -> TriggeredAction
    systemMetrics,    \* MemStorage.systemMetrics    : id -> SystemMetric
    now,              \* the clock new Date() reads
    pc,               \* fileId -> position of that document's run
    exitCode,         \* fileId -> <<code>> once the child process has closed
    responses,        \* fileId -> the status code answered for that upload
    refused,          \* status code -> number of uploads answered with it
    requests,         \* upload requests received so far
    crashed,          \* the server process died of an uncaught exception
    statusWrites,     \* history: fileId -> the statuses written, in order
    stages,           \* history: fileId -> number of stages the run entered
    sinkFailed,       \* history: the fileIds whose run had a store write rejected
    thrown,           \* the last direct IStorage call threw
    calls,            \* direct IStorage calls made so far
    appendLog,        \* history: the records handed to the append operations
    unrecognized,     \* history: the uploads refused as of an unsupported type
    router,           \* fileId -> the state of the pipeline in that child process
    classified,       \* the record of the last run of the classifier
    extracted,        \* the record of the last run of the JSON agent
    lastCall,         \* the last direct update call of IStorage and its arguments
    uploadedFiles,    \* FileUpload: the state uploadedFiles, the upload queue
    uploads           \* FileUpload: the mutations started, in order

storeVars == <<currentId, users, processedFiles, agentActivities, triggeredActions, systemMetrics>>
runVars == <<pc, exitCode, responses, refused, requests, crashed, stages, sinkFailed, thrown, calls>>
agentVars == <<classified, extracted>>
widgetVars == <<uploadedFiles, uploads>>
vars == <<storeVars, now, runVars, statusWrites, appendLog, unrecognized, router,
          agentVars, lastCall, widgetVars>>

\* ------------------------------------------------------- MemStorage
\* constructor
MemStorageInit ==
    /\ users = <<>>
    /\ processedFiles = <<>>
    /\ agentActivities = <<>>
    /\ triggeredActions = <<>>
    /\ systemMetrics = <<>>
    /\ currentId = 1

\* Variant: the users have a counter of their own.
createUser_ownCounter(insertUser) ==
    /\ users' = users @@
          (Cardinality(DOMAIN users) + 1 :>
              Spread(insertUser, [id |-> Cardinality(DOMAIN users) + 1]))
    /\ currentId' = currentId

\* createUser
createUser(insertUser) ==
    /\ users' = users @@ (currentId :> Spread(insertUser, [id |-> currentId]))
    /\ currentId' = currentId + 1

\* createProcessedFile
createProcessedFile(file) ==
    /\ processedFiles' = processedFiles @@
          (currentId :> Spread(file, [id |-> currentId, uploadedAt |-> now, processedAt |-> Null]))
    /\ currentId' = currentId + 1
    /\ statusWrites' = statusWrites @@ (currentId :> <<file.status>>)

\* Variant: the record is rebuilt from the defaults of a new document
\* instead of the stored record.
updateProcessedFile_fromDefaults(id, updates) ==
    /\ id \in DOMAIN processedFiles
    /\ processedFiles' = [processedFiles EXCEPT ![id] =
          Spread([processedFiles[id] EXCEPT !.priority = "low"], updates)]
    /\ statusWrites' = IF "status" \in DOMAIN updates
                       THEN [statusWrites EXCEPT ![id] = Append(@, updates.status)]
                       ELSE statusWrites

\* updateProcessedFile: the id is in the store (the other branch throws)
updateProcessedFile(id, updates) ==
    /\ id \in DOMAIN processedFiles
    /\ processedFiles' = [processedFiles EXCEPT ![id] = Spread(processedFiles[id], updates)]
    /\ statusWrites' = IF "status" \in DOMAIN updates
                       THEN [statusWrites EXCEPT ![id] = Append(@, updates.status)]
                       ELSE statusWrites

\* updateProcessedFile throws: ProcessedFile with id not found
updateProcessedFileThrows(id) == id \notin DOMAIN processedFiles

\* Variant: the record is stored under the id of its document.
createAgentActivity_keyedByFile(activity) ==
    /\ agentActivities' = [id \in DOMAIN agentActivities \cup {activity.fileId} |->
          IF id = activity.fileId
          THEN Spread(activity, [id |-> currentId, timestamp |-> now])
          ELSE agentActivities[id]]
    /\ currentId' = currentId + 1
    /\ appendLog' = Append(appendLog, [log |-> "activity", id |-> activity.fileId, record |-> activity])

\* createAgentActivity
createAgentActivity(activity) ==
    /\ agentActivities' = agentActivities @@
          (currentId :> Spread(activity, [id |-> currentId, timestamp |-> now]))
    /\ currentId' = currentId + 1
    /\ appendLog' = Append(appendLog, [log |-> "activity", id |-> currentId, record |-> activity])

\* Array.from(this.agentActivities.values()): the records in the order of
\* their insertion into the Map, which is the order of their ids.
RECURSIVE ActivityValues(_)
ActivityValues(ids) ==
    IF ids = {}
    THEN <<>>
    ELSE LET first == CHOOSE id \in ids : \A other \in ids : id <= other
         IN  <<agentActivities[first]>> \o ActivityValues(ids \ {first})

\* activities.sort((a, b) => b.timestamp - a.timestamp): the sort is stable,
\* records of equal timestamps keep the order they had.
RECURSIVE SortByTimestampDesc(_)
SortByTimestampDesc(activities) ==
    IF activities = <<>>
    THEN <<>>
    ELSE LET a == Head(activities)
             rest == SortByTimestampDesc(Tail(activities))
             newer == Cardinality({i \in 1..Len(rest) : rest[i].timestamp > a.timestamp})
         IN  SubSeq(rest, 1, newer) \o <<a>> \o SubSeq(rest, newer + 1, Len(rest))

\* getAgentActivities(fileId?, limit): fileId is Null when it is not given;
\* if (fileId) skips the filter for 0 as well.
getAgentActivities(fileId, limit) ==
    LET all == ActivityValues(DOMAIN agentActivities)
        activities == IF fileId # Null /\ fileId[1] # 0
                      THEN SelectSeq(all, LAMBDA a : a.fileId = fileId[1])
                      ELSE all
        sorted == SortByTimestampDesc(activities)
    IN  SubSeq(sorted, 1, IF limit < Len(sorted) THEN limit ELSE Len(sorted))

\* Variant: the id is read without being incremented.
createTriggeredAction_sameId(action) ==
    /\ triggeredActions' = [id \in DOMAIN triggeredActions \cup {currentId} |->
          IF id = currentId
          THEN Spread(action, [id |-> currentId, timestamp |-> now])
          ELSE triggeredActions[id]]
    /\ currentId' = currentId
    /\ appendLog' = Append(appendLog, [log |-> "action", id |-> currentId, record |-> action])

\* createTriggeredAction
createTriggeredAction(action) ==
    /\ triggeredActions' = triggeredActions @@
          (currentId :> Spread(action, [id |-> currentId, timestamp |-> now]))
    /\ currentId' = currentId + 1
    /\ appendLog' = Append(appendLog, [log |-> "action", id |-> currentId, record |-> action])

\* Variant: the update is stored in place of the record.
updateTriggeredAction_replaces(id, updates) ==
    /\ id \in DOMAIN triggeredActions
    /\ triggeredActions' = [triggeredActions EXCEPT ![id] = Spread([id |-> id], updates)]

\* updateTriggeredAction: the id is in the store (the other branch throws)
updateTriggeredAction(id, updates) ==
    /\ id \in DOMAIN triggeredActions
    /\ triggeredActions' = [triggeredActions EXCEPT ![id] = Spread(triggeredActions[id], updates)]

\* updateTriggeredAction throws: TriggeredAction with id not found
updateTriggeredActionThrows(id) == id \notin DOMAIN triggeredActions

\* createSystemMetric
createSystemMetric(metric) ==
    /\ systemMetrics' = systemMetrics @@
          (currentId :> Spread(metric, [id |-> currentId, timestamp |-> now]))
    /\ currentId' = currentId + 1

\* ------------------------------------------------------------------ Init
Init ==
    /\ MemStorageInit
    /\ now = 0
    /\ pc = <<>>
    /\ exitCode = <<>>
    /\ responses = <<>>
    /\ refused = [code \in {400, 500} |-> 0]
    /\ requests = 0
    /\ crashed = FALSE
    /\ statusWrites = <<>>
    /\ stages = <<>>
    /\ sinkFailed = {}
    /\ thrown = FALSE
    /\ calls = 0
    /\ appendLog = <<>>
    /\ unrecognized = {}
    /\ router = <<>>
    /\ classified = Null
    /\ extracted = Null
    /\ lastCall = Null
    /\ uploadedFiles = <<>>
    /\ uploads = <<>>

\* The clock advances between any two steps.
Tick ==
    /\ now < MaxTime
    /\ now' = now + 1
    /\ UNCHANGED <<storeVars, runVars, statusWrites, appendLog, unrecognized, router,
                   classified, extracted, lastCall, uploadedFiles, uploads>>

\* -------------------------------------------- POST /api/upload (routes.ts)
\* The handlers take limit, the number of requests the transport delivers.
\* if (!req.file) return res.status(400)
UploadNoFile(limit) ==
    /\ ~crashed
    /\ requests < limit
    /\ requests' = requests + 1
    /\ refused' = [refused EXCEPT ![400] = @ + 1]
    /\ UNCHANGED <<currentId, users, processedFiles, agentActivities, triggeredActions,
                   systemMetrics, now, pc, exitCode, responses, crashed, stages, sinkFailed,
                   thrown, calls, statusWrites, appendLog, unrecognized, router, classified,
                   extracted, lastCall, uploadedFiles, uploads>>

\* Variant: the record is created before the extension is tested.
UploadUnsupported_createsFirst(limit, originalname, signature) ==
    /\ ~crashed
    /\ requests < limit
    /\ FileTypeOf(originalname) = "unknown"
    /\ requests' = requests + 1
    /\ refused' = [refused EXCEPT ![400] = @ + 1]
    /\ unrecognized' = unrecognized \cup
          {[originalName |-> originalname, signature |-> signature]}
    /\ processedFiles' = processedFiles @@
          (currentId :> [id |-> currentId, originalName |-> originalname,
                         fileType |-> "unknown", status |-> "pending", priority |-> "low"])
    /\ currentId' = currentId + 1
    /\ statusWrites' = statusWrites @@ (currentId :> <<"pending">>)
    /\ UNCHANGED <<users, agentActivities, triggeredActions, systemMetrics, now, pc, exitCode,
                   responses, crashed, stages, sinkFailed, thrown, calls, appendLog, router,
                   classified, extracted, lastCall, uploadedFiles, uploads>>

\* the else branch of the extension test: return res.status(400).  The
\* handler never reads the content of the file, signature.
UploadUnsupported(limit, originalname, signature) ==
    /\ ~crashed
    /\ requests < limit
    /\ FileTypeOf(originalname) = "unknown"
    /\ requests' = requests + 1
    /\ refused' = [refused EXCEPT ![400] = @ + 1]
    /\ unrecognized' = unrecognized \cup
          {[originalName |-> originalname, signature |-> signature]}
    /\ UNCHANGED <<currentId, users, processedFiles, agentActivities, triggeredActions,
                   systemMetrics, now, pc, exitCode, responses, crashed, stages, sinkFailed,
                   thrown, calls, statusWrites, appendLog, router, classified, extracted,
                   lastCall, uploadedFiles, uploads>>

\* The record the handler hands to storage.createProcessedFile.
NewFile(originalname) ==
    [filename |-> "upload",
     originalName |-> originalname,
     fileType |-> FileTypeOf(originalname),
     size |-> CHOOSE size \in UploadSizes : TRUE,
     status |-> "pending",
     classificationResult |-> Null,
     extractedData |-> Null,
     businessIntent |-> Null,
     priority |-> "low",
     agentAssigned |-> Null]

\* The handler up to its await of storage.createProcessedFile.
UploadAccept(limit, originalname) ==
    /\ ~crashed
    /\ requests < limit
    /\ FileTypeOf(originalname) # "unknown"
    /\ requests' = requests + 1
    /\ createProcessedFile(NewFile(originalname))
    /\ pc' = pc @@ (currentId :> "created")
    /\ stages' = stages @@ (currentId :> 0)
    /\ UNCHANGED <<users, agentActivities, triggeredActions, systemMetrics, now, exitCode,
                   responses, refused, crashed, sinkFailed, thrown, calls, appendLog, unrecognized,
                   router, classified, extracted, lastCall, uploadedFiles, uploads>>

\* The handler after the await: processFileWithAI(processedFile.id, ...) runs
\* up to its first await, which is the whole body of updateProcessedFile, and
\* then the handler answers with res.json.
Start(fileId) ==
    /\ ~crashed
    /\ fileId \in DOMAIN pc
    /\ pc[fileId] = "created"
    /\ updateProcessedFile(fileId, [status |-> "processing", processedAt |-> Some(now)])
    /\ pc' = [pc EXCEPT ![fileId] = "log"]
    /\ stages' = [stages EXCEPT ![fileId] = @ + 1]
    /\ responses' = responses @@ (fileId :> 200)
    /\ UNCHANGED <<currentId, users, agentActivities, triggeredActions, systemMetrics, now,
                   exitCode, refused, requests, crashed, sinkFailed, thrown, calls, appendLog,
                   unrecognized, router, classified, extracted, lastCall, uploadedFiles,
                   uploads>>

\* ------------------------------------------ processFileWithAI (routes.ts)
\* Variant: the record names the document uploaded last.
StartActivity_lastUpload(fileId) ==
    [fileId |-> CHOOSE id \in DOMAIN processedFiles : \A other \in DOMAIN processedFiles : other <= id,
     agentName |-> "Classifier Agent",
     action |-> "Start Processing",
     input |-> [fileType |-> processedFiles[fileId].fileType, filePath |-> "uploads/upload"],
     output |-> Null,
     status |-> "pending",
     processingTime |-> Null,
     errorMessage |-> Null]

\* The record of the start of processing.
StartActivity(fileId) ==
    [fileId |-> fileId,
     agentName |-> "Classifier Agent",
     action |-> "Start Processing",
     input |-> [fileType |-> processedFiles[fileId].fileType, filePath |-> "uploads/upload"],
     output |-> Null,
     status |-> "pending",
     processingTime |-> Null,
     errorMessage |-> Null]

\* Variant: createAgentActivity is not awaited, the run goes on before the
\* record is in the store.
LogStart_notAwaited(fileId) ==
    /\ ~crashed
    /\ fileId \in DOMAIN pc
    /\ pc[fileId] = "log"
    /\ pc' = [pc EXCEPT ![fileId] = "spawn"]
    /\ UNCHANGED <<currentId, users, processedFiles, agentActivities, triggeredActions,
                   systemMetrics, now, exitCode, responses, refused, requests, crashed, stages,
                   sinkFailed, thrown, calls, statusWrites, appendLog, unrecognized, router,
                   classified, extracted, lastCall, uploadedFiles, uploads>>

\* await storage.createAgentActivity(...): Log start of processing
LogStart(fileId) ==
    /\ ~crashed
    /\ fileId \in DOMAIN pc
    /\ pc[fileId] = "log"
    /\ createAgentActivity(StartActivity(fileId))
    /\ pc' = [pc EXCEPT ![fileId] = "spawn"]
    /\ UNCHANGED <<users, processedFiles, triggeredActions, systemMetrics, now, exitCode,
                   responses, refused, requests, crashed, stages, sinkFailed, thrown, calls,
                   statusWrites, unrecognized, router, classified, extracted, lastCall,
                   uploadedFiles, uploads>>

\* Variant: the status write of the catch block runs as a finally block.
Spawn_finally(fileId) ==
    /\ ~crashed
    /\ fileId \in DOMAIN pc
    /\ pc[fileId] = "spawn"
    /\ pc' = [pc EXCEPT ![fileId] = "running"]
    /\ stages' = [stages EXCEPT ![fileId] = @ + 1]
    /\ updateProcessedFile(fileId, [status |-> "failed"])
    /\ UNCHANGED <<currentId, users, agentActivities, triggeredActions, systemMetrics, now,
                   exitCode, responses, refused, requests, crashed, sinkFailed, thrown, calls,
                   appendLog, unrecognized, router, classified, extracted, lastCall,
                   uploadedFiles, uploads>>

\* spawn returns a running child; the handlers are attached and the try
\* block ends.
Spawn(fileId) ==
    /\ ~crashed
    /\ fileId \in DOMAIN pc
    /\ pc[fileId] = "spawn"
    /\ pc' = [pc EXCEPT ![fileId] = "running"]
    /\ stages' = [stages EXCEPT ![fileId] = @ + 1]
    /\ UNCHANGED <<currentId, users, processedFiles, agentActivities, triggeredActions,
                   systemMetrics, now, exitCode, responses, refused, requests, crashed, sinkFailed,
                   thrown, calls, statusWrites, appendLog, unrecognized, router, classified,
                   extracted, lastCall, uploadedFiles, uploads>>

\* spawn throws synchronously (an error other than ENOENT, EACCES, ...):
\* control passes to the catch block.
SpawnThrows(fileId) ==
    /\ ~crashed
    /\ fileId \in DOMAIN pc
    /\ pc[fileId] = "spawn"
    /\ pc' = [pc EXCEPT ![fileId] = "catch"]
    /\ UNCHANGED <<currentId, users, processedFiles, agentActivities, triggeredActions,
                   systemMetrics, now, exitCode, responses, refused, requests, crashed, stages,
                   sinkFailed, thrown, calls, statusWrites, appendLog, unrecognized, router,
                   classified, extracted, lastCall, uploadedFiles, uploads>>

\* python3 cannot be launched (ENOENT, EACCES): the child emits an error
\* event, for which no listener is registered; the uncaught exception ends
\* the server process.
SpawnErrorEvent(fileId) ==
    /\ ~crashed
    /\ fileId \in DOMAIN pc
    /\ pc[fileId] = "spawn"
    /\ pc' = [pc EXCEPT ![fileId] = "launchfail"]
    /\ crashed' = TRUE
    /\ UNCHANGED <<currentId, users, processedFiles, agentActivities, triggeredActions,
                   systemMetrics, now, exitCode, responses, refused, requests, stages, sinkFailed,
                   thrown, calls, statusWrites, appendLog, unrecognized, router, classified,
                   extracted, lastCall, uploadedFiles, uploads>>

\* The catch block: await storage.updateProcessedFile(fileId, {status: "failed"})
Catch(fileId) ==
    /\ ~crashed
    /\ fileId \in DOMAIN pc
    /\ pc[fileId] = "catch"
    /\ updateProcessedFile(fileId, [status |-> "failed"])
    /\ pc' = [pc EXCEPT ![fileId] = "done"]
    /\ UNCHANGED <<currentId, users, agentActivities, triggeredActions, systemMetrics, now,
                   exitCode, responses, refused, requests, crashed, stages, sinkFailed, thrown,
                   calls, appendLog, unrecognized, router, classified, extracted, lastCall,
                   uploadedFiles, uploads>>

\* The codes the close event carries: null when a signal ended the child.
CloseCodes == {Null} \cup {Some(c) : c \in 0..MaxExitCode}

\* Variant: a child that failed is launched again.
ChildClose_retries(fileId, code) ==
    /\ ~crashed
    /\ fileId \in DOMAIN pc
    /\ pc[fileId] = "running"
    /\ exitCode' = (fileId :> code) @@ exitCode
    /\ IF code = Some(0)
       THEN pc' = [pc EXCEPT ![fileId] = "done"] /\ UNCHANGED <<processedFiles, statusWrites>>
       ELSE /\ pc' = [pc EXCEPT ![fileId] = "spawn"]
            /\ updateProcessedFile(fileId, [status |-> "failed"])
    /\ UNCHANGED <<currentId, users, agentActivities, triggeredActions, systemMetrics, now,
                   responses, refused, requests, crashed, stages, sinkFailed, thrown, calls,
                   appendLog, unrecognized, router, classified, extracted, lastCall, uploadedFiles,
                   uploads>>

\* The handler of the close event of the child process.
ChildClose(fileId, code) ==
    /\ ~crashed
    /\ fileId \in DOMAIN pc
    /\ pc[fileId] = "running"
    /\ exitCode' = exitCode @@ (fileId :> code)
    /\ pc' = [pc EXCEPT ![fileId] = "done"]
    /\ IF code = Some(0)
       THEN UNCHANGED <<processedFiles, statusWrites>>
       ELSE updateProcessedFile(fileId, [status |-> "failed"])
    /\ UNCHANGED <<currentId, users, agentActivities, triggeredActions, systemMetrics, now,
                   responses, refused, requests, crashed, stages, sinkFailed, thrown, calls,
                   appendLog, unrecognized, router, classified, extracted, lastCall,
                   uploadedFiles, uploads>>

\* The child process never exits: no close event is ever delivered.
ChildHang(fileId) ==
    /\ ~crashed
    /\ fileId \in DOMAIN pc
    /\ pc[fileId] = "running"
    /\ pc' = [pc EXCEPT ![fileId] = "blocked"]
    /\ UNCHANGED <<currentId, users, processedFiles, agentActivities, triggeredActions,
                   systemMetrics, now, exitCode, responses, refused, requests, crashed, stages,
                   sinkFailed, thrown, calls, statusWrites, appendLog, unrecognized, router,
                   classified, extracted, lastCall, uploadedFiles, uploads>>

\* One step of the run of one document.
RunStep(fileId) ==
    \/ Start(fileId)
    \/ LogStart(fileId)
    \/ Spawn(fileId)
    \/ SpawnThrows(fileId)
    \/ SpawnErrorEvent(fileId)
    \/ Catch(fileId)
    \/ \E code \in CloseCodes : ChildClose(fileId, code)

\* POST /api/upload with a name of names, while fewer than limit requests
\* have arrived.
Upload(limit, names) ==
    \/ UploadNoFile(limit)
    \/ \E originalname \in names : \E signature \in UploadSignatures :
          UploadUnsupported(limit, originalname, signature)
    \/ \E originalname \in names : UploadAccept(limit, originalname)

FileIds == 1..(2 * MaxRequests)

Next ==
    \/ Upload(MaxRequests, UploadNames)
    \/ \E fileId \in FileIds : RunStep(fileId)
    \/ \E fileId \in FileIds : ChildHang(fileId)

Spec == Init /\ [][Next]_vars

\* The event loop runs every continuation and delivers every event that is
\* ready: each run takes its next step; a blocked child delivers no event.
FairSpec == Spec /\ \A fileId \in FileIds : WF_vars(RunStep(fileId))

\* ------------------------------------------------- rejected store writes
\* IStorage returns promises; these are the steps of the handlers when the
\* promise of a write is rejected (the store is unavailable).

\* createProcessedFile is rejected: the catch of the handler answers 500.
UploadCreateRejects(limit, originalname) ==
    /\ ~crashed
    /\ requests < limit
    /\ FileTypeOf(originalname) # "unknown"
    /\ requests' = requests + 1
    /\ refused' = [refused EXCEPT ![500] = @ + 1]
    /\ UNCHANGED <<currentId, users, processedFiles, agentActivities, triggeredActions,
                   systemMetrics, now, pc, exitCode, responses, crashed, stages, sinkFailed,
                   thrown, calls, statusWrites, appendLog, unrecognized, router, classified,
                   extracted, lastCall, uploadedFiles, uploads>>

\* updateProcessedFile(fileId, {status: "processing"}) is rejected: the run
\* goes to its catch block; the handler has answered meanwhile.
StartRejects(fileId) ==
    /\ ~crashed
    /\ fileId \in DOMAIN pc
    /\ pc[fileId] = "created"
    /\ pc' = [pc EXCEPT ![fileId] = "catch"]
    /\ stages' = [stages EXCEPT ![fileId] = @ + 1]
    /\ responses' = responses @@ (fileId :> 200)
    /\ sinkFailed' = sinkFailed \cup {fileId}
    /\ UNCHANGED <<currentId, users, processedFiles, agentActivities, triggeredActions,
                   systemMetrics, now, exitCode, refused, requests, crashed, thrown, calls,
                   statusWrites, appendLog, unrecognized, router, classified, extracted,
                   lastCall, uploadedFiles, uploads>>

\* createAgentActivity is rejected: the run goes to its catch block.
LogStartRejects(fileId) ==
    /\ ~crashed
    /\ fileId \in DOMAIN pc
    /\ pc[fileId] = "log"
    /\ pc' = [pc EXCEPT ![fileId] = "catch"]
    /\ sinkFailed' = sinkFailed \cup {fileId}
    /\ UNCHANGED <<currentId, users, processedFiles, agentActivities, triggeredActions,
                   systemMetrics, now, exitCode, responses, refused, requests, crashed, stages,
                   thrown, calls, statusWrites, appendLog, unrecognized, router, classified,
                   extracted, lastCall, uploadedFiles, uploads>>

\* The write of the catch block is rejected: nothing awaits the promise of
\* processFileWithAI, the rejection is unhandled (and, depending on the
\* runtime, ends the server process).
CatchRejects(fileId) ==
    /\ ~crashed
    /\ fileId \in DOMAIN pc
    /\ pc[fileId] = "catch"
    /\ pc' = [pc EXCEPT ![fileId] = "unhandled"]
    /\ sinkFailed' = sinkFailed \cup {fileId}
    /\ crashed' \in BOOLEAN
    /\ UNCHANGED <<currentId, users, processedFiles, agentActivities, triggeredActions,
                   systemMetrics, now, exitCode, responses, refused, requests, stages, thrown,
                   calls, statusWrites, appendLog, unrecognized, router, classified,
                   extracted, lastCall, uploadedFiles, uploads>>

\* The write of the close handler is rejected: an unhandled rejection.
ChildCloseRejects(fileId, code) ==
    /\ ~crashed
    /\ fileId \in DOMAIN pc
    /\ pc[fileId] = "running"
    /\ code # Some(0)
    /\ exitCode' = exitCode @@ (fileId :> code)
    /\ pc' = [pc EXCEPT ![fileId] = "unhandled"]
    /\ sinkFailed' = sinkFailed \cup {fileId}
    /\ crashed' \in BOOLEAN
    /\ UNCHANGED <<currentId, users, processedFiles, agentActivities, triggeredActions,
                   systemMetrics, now, responses, refused, requests, stages, thrown, calls,
                   statusWrites, appendLog, unrecognized, router, classified, extracted,
                   lastCall, uploadedFiles, uploads>>

FaultStep ==
    \/ \E originalname \in UploadNames : UploadCreateRejects(MaxRequests, originalname)
    \/ \E fileId \in FileIds : StartRejects(fileId)
    \/ \E fileId \in FileIds : LogStartRejects(fileId)
    \/ \E fileId \in FileIds : CatchRejects(fileId)
    \/ \E fileId \in FileIds : \E code \in CloseCodes : ChildCloseRejects(fileId, code)

FaultNext == Next \/ FaultStep

\* The server with a store whose writes may be rejected.
FaultSpec == Init /\ [][FaultNext]_vars

\* ------------------------------------------- direct calls of IStorage
\* The arguments the calls of the model carry.
UserInputs == {[username |-> "admin", password |-> "secret"]}
FileInputs == {NewFile(<<"d", ".", "j", "s", "o", "n">>)}
FileUpdates == {[status |-> "completed"], [priority |-> "high"]}
ActivityInputs ==
    {[fileId |-> f,
      agentName |-> "Email Agent",
      action |-> "Extract Fields",
      input |-> [fileType |-> "Email", filePath |-> "uploads/upload"],
      output |-> Some("fields"),
      status |-> "success",
      processingTime |-> Some(5),
      errorMessage |-> Null] : f \in 1..2}
ActionInputs ==
    {[fileId |-> 1,
      actionType |-> t,
      description |-> "follow up",
      priority |-> "high",
      status |-> "pending",
      externalApiCall |-> Null,
      metadata |-> Null] : t \in {"escalate", "log"}}
ActionUpdates == {[status |-> "completed"], [status |-> "failed"]}
MetricInputs == {[metricName |-> "files", metricValue |-> "1"]}
StoreIds == 1..(MaxCalls + 1)
\* The upload requests that run among the direct calls.
StoreRequests == MaxCalls - 2
StoreNames == {<<"a", ".", "p", "d", "f">>, <<"R", "E", "A", "D">>}

CallCreateUser(insertUser) ==
    /\ ~crashed
    /\ calls + requests < MaxCalls
    /\ createUser(insertUser)
    /\ thrown' = FALSE
    /\ calls' = calls + 1
    /\ lastCall' = Null
    /\ UNCHANGED <<processedFiles, agentActivities, triggeredActions, systemMetrics, now, pc,
                   exitCode, responses, refused, requests, crashed, stages, sinkFailed,
                   statusWrites, appendLog, unrecognized, router, classified, extracted,
                   uploadedFiles, uploads>>

CallCreateProcessedFile(file) ==
    /\ ~crashed
    /\ calls + requests < MaxCalls
    /\ createProcessedFile(file)
    /\ thrown' = FALSE
    /\ calls' = calls + 1
    /\ lastCall' = Null
    /\ UNCHANGED <<users, agentActivities, triggeredActions, systemMetrics, now, pc, exitCode,
                   responses, refused, requests, crashed, stages, sinkFailed, appendLog,
                   unrecognized, router, classified, extracted, uploadedFiles,
                   uploads>>

CallUpdateProcessedFile(id, updates) ==
    /\ ~crashed
    /\ calls + requests < MaxCalls
    /\ IF updateProcessedFileThrows(id)
       THEN thrown' = TRUE /\ UNCHANGED <<processedFiles, statusWrites>>
       ELSE thrown' = FALSE /\ updateProcessedFile(id, updates)
    /\ calls' = calls + 1
    /\ lastCall' = Some([op |-> "updateProcessedFile", id |-> id, updates |-> updates])
    /\ UNCHANGED <<currentId, users, agentActivities, triggeredActions, systemMetrics, now, pc,
                   exitCode, responses, refused, requests, crashed, stages, sinkFailed, appendLog,
                   unrecognized, router, classified, extracted, uploadedFiles,
                   uploads>>

CallCreateAgentActivity(activity) ==
    /\ ~crashed
    /\ calls + requests < MaxCalls
    /\ createAgentActivity(activity)
    /\ thrown' = FALSE
    /\ calls' = calls + 1
    /\ lastCall' = Null
    /\ UNCHANGED <<users, processedFiles, triggeredActions, systemMetrics, now, pc, exitCode,
                   responses, refused, requests, crashed, stages, sinkFailed, statusWrites,
                   unrecognized, router, classified, extracted, uploadedFiles,
                   uploads>>

CallCreateTriggeredAction(action) ==
    /\ ~crashed
    /\ calls + requests < MaxCalls
    /\ createTriggeredAction(action)
    /\ thrown' = FALSE
    /\ calls' = calls + 1
    /\ lastCall' = Null
    /\ UNCHANGED <<users, processedFiles, agentActivities, systemMetrics, now, pc, exitCode,
                   responses, refused, requests, crashed, stages, sinkFailed, statusWrites,
                   unrecognized, router, classified, extracted, uploadedFiles,
                   uploads>>

CallUpdateTriggeredAction(id, updates) ==
    /\ ~crashed
    /\ calls + requests < MaxCalls
    /\ IF updateTriggeredActionThrows(id)
       THEN thrown' = TRUE /\ UNCHANGED triggeredActions
       ELSE thrown' = FALSE /\ updateTriggeredAction(id, updates)
    /\ calls' = calls + 1
    /\ lastCall' = Some([op |-> "updateTriggeredAction", id |-> id, updates |-> updates])
    /\ UNCHANGED <<currentId, users, processedFiles, agentActivities, systemMetrics, now, pc,
                   exitCode, responses, refused, requests, crashed, stages, sinkFailed,
                   statusWrites, appendLog, unrecognized, router, classified, extracted,
                   uploadedFiles, uploads>>

CallCreateSystemMetric(metric) ==
    /\ ~crashed
    /\ calls + requests < MaxCalls
    /\ createSystemMetric(metric)
    /\ thrown' = FALSE
    /\ calls' = calls + 1
    /\ lastCall' = Null
    /\ UNCHANGED <<users, processedFiles, agentActivities, triggeredActions, now, pc, exitCode,
                   responses, refused, requests, crashed, stages, sinkFailed, statusWrites,
                   appendLog, unrecognized, router, classified, extracted, uploadedFiles, uploads>>

StorageCall ==
    \/ \E insertUser \in UserInputs : CallCreateUser(insertUser)
    \/ \E file \in FileInputs : CallCreateProcessedFile(file)
    \/ \E id \in StoreIds : \E updates \in FileUpdates : CallUpdateProcessedFile(id, updates)
    \/ \E activity \in ActivityInputs : CallCreateAgentActivity(activity)
    \/ \E action \in ActionInputs : CallCreateTriggeredAction(action)
    \/ \E id \in StoreIds : \E updates \in ActionUpdates : CallUpdateTriggeredAction(id, updates)
    \/ \E metric \in MetricInputs : CallCreateSystemMetric(metric)

\* The upload requests that run among the direct calls: they share the
\* budget of the calls.
StoreUploads == IF calls + requests < MaxCalls THEN StoreRequests ELSE 0

StorageNext ==
    \/ StorageCall
    \/ Upload(StoreUploads, StoreNames)
    \/ \E fileId \in StoreIds : RunStep(fileId)
    \/ \E fileId \in StoreIds : ChildHang(fileId)

\* The store under any sequence of IStorage calls and route operations.
StorageSpec == Init /\ [][StorageNext]_vars

\* ------------------------------------- the pipeline of the child process
\* The child process (server/ai_system.py) runs classification, extraction
\* and the Action Router.  The router follows the mapping table, the dispatch
\* rule and the persistence interface of the design: it appends ActionRecords
\* with createTriggeredAction and settles them with updateTriggeredAction.

Intents == {"RFQ", "Complaint", "Invoice", "Regulation", "FraudRisk", "Unknown"}

\* low < medium < high
Priorities == <<"low", "medium", "high">>
Rank(priority) == CHOOSE i \in 1..Len(Priorities) : Priorities[i] = priority

\* A flag is its tags in order: "anomaly:schema:amount" is
\* <<"anomaly", "schema", "amount">>.
Flags == {<<"anomaly", "schema", "amount">>, <<"risk", "high-value">>}

\* The flag matches anomaly:*
IsAnomaly(flag) == flag[1] = "anomaly"

ExtractionResults ==
    [fields : {"fields"}, priority : {"low", "medium", "high"}, flags : SUBSET Flags]

\* Variant: the table is an if / else-if chain, the first trigger wins.
TriggersOf_firstMatch(intent, extraction) ==
    IF extraction.priority = "high" THEN <<"escalate">>
    ELSE IF intent = "FraudRisk" THEN <<"alert">>
    ELSE IF \E flag \in extraction.flags : IsAnomaly(flag) THEN <<"flag">>
    ELSE <<>>

\* Variant: the intent is looked at before the priority, and a fraud alert
\* stands in for the escalation.
TriggersOf_intentFirst(intent, extraction) ==
    (IF intent = "FraudRisk" THEN <<"alert">>
     ELSE IF extraction.priority = "high" THEN <<"escalate">> ELSE <<>>)
    \o (IF \E flag \in extraction.flags : IsAnomaly(flag) THEN <<"flag">> ELSE <<>>)

\* The mapping table: the action types the triggers of a document call for.
TriggersOf(intent, extraction) ==
    (IF extraction.priority = "high" THEN <<"escalate">> ELSE <<>>)
    \o (IF intent = "FraudRisk" THEN <<"alert">> ELSE <<>>)
    \o (IF \E flag \in extraction.flags : IsAnomaly(flag) THEN <<"flag">> ELSE <<>>)

\* Variant: an action that only logs is given the default priority.
NewAction_defaultPriority(fileId, actionType, extraction) ==
    [fileId |-> fileId,
     actionType |-> actionType,
     description |-> actionType,
     priority |-> IF actionType = "log" THEN "low" ELSE extraction.priority,
     status |-> "pending",
     externalApiCall |-> Null,
     metadata |-> Null]

\* The ActionRecord the router creates for one action type.
NewAction(fileId, actionType, extraction) ==
    [fileId |-> fileId,
     actionType |-> actionType,
     description |-> actionType,
     priority |-> extraction.priority,
     status |-> "pending",
     externalApiCall |-> Null,
     metadata |-> Null]

\* Variant: every document is logged, whatever else it triggers.
route_alwaysLogs(fileId, intent, extraction) ==
    LET types == TriggersOf(intent, extraction) \o <<"log">>
    IN  [i \in 1..Len(types) |-> NewAction(fileId, types[i], extraction)]

\* route(intent, extraction): one ActionRecord per trigger, Log when there
\* is none.
route(fileId, intent, extraction) ==
    LET triggers == TriggersOf(intent, extraction)
        types == IF triggers = <<>> THEN <<"log">> ELSE triggers
    IN  [i \in 1..Len(types) |-> NewAction(fileId, types[i], extraction)]

\* The attempts a dispatch is given (N).
DispatchAttempts == 3

\* The endpoint an action type is dispatched to; "none" for the types that
\* are settled without an external call.
SinkOf(actionType) ==
    IF actionType = "escalate" THEN "crm"
    ELSE IF actionType = "alert" THEN "risk"
    ELSE "none"

\* POST /api/external/crm/escalate
crmEscalate == [success |-> TRUE, ticketId |-> <<"CRM", now>>]

\* POST /api/external/risk/alert
riskAlert == [success |-> TRUE, alertId |-> <<"RISK", now>>]

\* The external reference the sink of the action type answers with.
ExternalRef(actionType) ==
    IF SinkOf(actionType) = "crm" THEN crmEscalate.ticketId ELSE riskAlert.alertId

\* The ActivityRecord of a dispatch that was given up.
DispatchFailure(fileId, action) ==
    [fileId |-> fileId,
     agentName |-> "Action Router",
     action |-> "Dispatch",
     input |-> [actionType |-> action.actionType, attempts |-> DispatchAttempts],
     output |-> Null,
     status |-> "failed",
     processingTime |-> Null,
     errorMessage |-> Some("ActionDispatchFailure")]

\* The child process of fileId is running and the server is up.
ChildRuns(fileId) ==
    /\ ~crashed
    /\ fileId \in DOMAIN pc
    /\ pc[fileId] = "running"

\* Classification and extraction hand their results to the router.
RouterInput(fileId, intent, extraction) ==
    /\ ChildRuns(fileId)
    /\ fileId \notin DOMAIN router
    /\ router' = router @@
          (fileId :> [stage |-> "route", intent |-> intent, extraction |-> extraction,
                      run |-> 1, queue |-> <<>>, todo |-> <<>>, attempts |-> <<>>,
                      emitted |-> <<>>])
    /\ UNCHANGED <<currentId, users, processedFiles, agentActivities, triggeredActions,
                   systemMetrics, now, pc, exitCode, responses, refused, requests, crashed, stages,
                   sinkFailed, thrown, calls, statusWrites, appendLog, unrecognized,
                   classified, extracted, lastCall, uploadedFiles, uploads>>

\* Variant: a rerun leaves out the action types it already delivered.
Route_skipsDelivered(fileId) ==
    /\ ChildRuns(fileId)
    /\ fileId \in DOMAIN router
    /\ router[fileId].stage = "route"
    /\ LET r == router[fileId]
           delivered == {triggeredActions[id].actionType :
                            id \in {i \in DOMAIN triggeredActions :
                                       /\ triggeredActions[i].fileId = fileId
                                       /\ triggeredActions[i].status = "completed"}}
           queue == SelectSeq(route(fileId, r.intent, r.extraction),
                              LAMBDA a : a.actionType \notin delivered)
       IN  router' = [router EXCEPT ![fileId] =
              [r EXCEPT !.queue = queue,
                        !.emitted = Append(@, {}),
                        !.stage = IF queue = <<>> THEN "routed" ELSE "emit"]]
    /\ UNCHANGED <<currentId, users, processedFiles, agentActivities, triggeredActions,
                   systemMetrics, now, pc, exitCode, responses, refused, requests, crashed, stages,
                   sinkFailed, thrown, calls, statusWrites, appendLog, unrecognized,
                   classified, extracted, lastCall, uploadedFiles, uploads>>

\* The router computes the actions of the document.
Route(fileId) ==
    /\ ChildRuns(fileId)
    /\ fileId \in DOMAIN router
    /\ router[fileId].stage = "route"
    /\ LET r == router[fileId]
       IN  router' = [router EXCEPT ![fileId] =
              [r EXCEPT !.queue = route(fileId, r.intent, r.extraction),
                        !.emitted = Append(@, {}),
                        !.stage = "emit"]]
    /\ UNCHANGED <<currentId, users, processedFiles, agentActivities, triggeredActions,
                   systemMetrics, now, pc, exitCode, responses, refused, requests, crashed, stages,
                   sinkFailed, thrown, calls, statusWrites, appendLog, unrecognized,
                   classified, extracted, lastCall, uploadedFiles, uploads>>

\* The router appends the next ActionRecord, status pending.
Emit(fileId) ==
    /\ ChildRuns(fileId)
    /\ fileId \in DOMAIN router
    /\ router[fileId].stage = "emit"
    /\ LET r == router[fileId]
       IN  /\ createTriggeredAction(Head(r.queue))
           /\ router' = [router EXCEPT ![fileId] =
                 [r EXCEPT !.queue = Tail(@),
                           !.todo = Append(@, currentId),
                           !.attempts = @ @@ (currentId :> 0),
                           !.emitted = [@ EXCEPT ![r.run] = @ \cup {currentId}],
                           !.stage = IF Tail(r.queue) = <<>> THEN "dispatch" ELSE "emit"]]
    /\ UNCHANGED <<users, processedFiles, agentActivities, systemMetrics, now, pc, exitCode,
                   responses, refused, requests, crashed, stages, sinkFailed, thrown, calls,
                   statusWrites, unrecognized, classified, extracted, lastCall, uploadedFiles,
                   uploads>>

\* The router state after the first ActionRecord of todo was settled.
Settled(r) ==
    [r EXCEPT !.todo = Tail(@),
              !.stage = IF Tail(r.todo) = <<>> THEN "routed" ELSE "dispatch"]

\* An action without an external sink is completed at once.
CompleteLocal(fileId) ==
    /\ ChildRuns(fileId)
    /\ fileId \in DOMAIN router
    /\ router[fileId].stage = "dispatch"
    /\ LET r == router[fileId]
           id == Head(r.todo)
       IN  /\ SinkOf(triggeredActions[id].actionType) = "none"
           /\ updateTriggeredAction(id, [status |-> "completed"])
           /\ router' = [router EXCEPT ![fileId] = Settled(r)]
    /\ UNCHANGED <<currentId, users, processedFiles, agentActivities, systemMetrics, now, pc,
                   exitCode, responses, refused, requests, crashed, stages, sinkFailed, thrown,
                   calls, statusWrites, appendLog, unrecognized, classified, extracted,
                   lastCall, uploadedFiles, uploads>>

\* An attempt of the dispatch reaches the sink, which answers with its
\* reference.
DispatchDelivered(fileId) ==
    /\ ChildRuns(fileId)
    /\ fileId \in DOMAIN router
    /\ router[fileId].stage = "dispatch"
    /\ LET r == router[fileId]
           id == Head(r.todo)
           actionType == triggeredActions[id].actionType
       IN  /\ SinkOf(actionType) # "none"
           /\ r.attempts[id] < DispatchAttempts
           /\ updateTriggeredAction(id, [status |-> "completed",
                                         externalApiCall |-> Some(ExternalRef(actionType))])
           /\ router' = [router EXCEPT ![fileId] =
                 [Settled(r) EXCEPT !.attempts[id] = @ + 1]]
    /\ UNCHANGED <<currentId, users, processedFiles, agentActivities, systemMetrics, now, pc,
                   exitCode, responses, refused, requests, crashed, stages, sinkFailed, thrown,
                   calls, statusWrites, appendLog, unrecognized, classified, extracted,
                   lastCall, uploadedFiles, uploads>>

\* An attempt of the dispatch fails and another one is left.
DispatchRetry(fileId) ==
    /\ ChildRuns(fileId)
    /\ fileId \in DOMAIN router
    /\ router[fileId].stage = "dispatch"
    /\ LET r == router[fileId]
           id == Head(r.todo)
       IN  /\ SinkOf(triggeredActions[id].actionType) # "none"
           /\ r.attempts[id] + 1 < DispatchAttempts
           /\ router' = [router EXCEPT ![fileId] = [r EXCEPT !.attempts[id] = @ + 1]]
    /\ UNCHANGED <<currentId, users, processedFiles, agentActivities, triggeredActions,
                   systemMetrics, now, pc, exitCode, responses, refused, requests, crashed, stages,
                   sinkFailed, thrown, calls, statusWrites, appendLog, unrecognized,
                   classified, extracted, lastCall, uploadedFiles, uploads>>

\* The last attempt of the dispatch fails: the ActionRecord is failed and
\* the error goes to the Activity Recorder.
DispatchExhausted(fileId) ==
    /\ ChildRuns(fileId)
    /\ fileId \in DOMAIN router
    /\ router[fileId].stage = "dispatch"
    /\ LET r == router[fileId]
           id == Head(r.todo)
       IN  /\ SinkOf(triggeredActions[id].actionType) # "none"
           /\ r.attempts[id] + 1 = DispatchAttempts
           /\ updateTriggeredAction(id, [status |-> "failed"])
           /\ createAgentActivity(DispatchFailure(fileId, triggeredActions[id]))
           /\ router' = [router EXCEPT ![fileId] =
                 [Settled(r) EXCEPT !.attempts[id] = @ + 1]]
    /\ UNCHANGED <<users, processedFiles, systemMetrics, now, pc, exitCode, responses, refused,
                   requests, crashed, stages, sinkFailed, thrown, calls, statusWrites,
                   unrecognized, classified, extracted, lastCall, uploadedFiles, uploads>>

\* route is run a second time on the same intent and ExtractionResult.
Reroute(fileId) ==
    /\ ChildRuns(fileId)
    /\ fileId \in DOMAIN router
    /\ router[fileId].stage = "routed"
    /\ router[fileId].run < 2
    /\ router' = [router EXCEPT ![fileId] =
          [@ EXCEPT !.run = @ + 1, !.stage = "route"]]
    /\ UNCHANGED <<currentId, users, processedFiles, agentActivities, triggeredActions,
                   systemMetrics, now, pc, exitCode, responses, refused, requests, crashed, stages,
                   sinkFailed, thrown, calls, statusWrites, appendLog, unrecognized,
                   classified, extracted, lastCall, uploadedFiles, uploads>>

\* The close event of the child: code 0 once the pipeline is through, another
\* code when classification or extraction fails and the router is never
\* reached.
PipelineClose(fileId, code) ==
    /\ IF fileId \in DOMAIN router
       THEN router[fileId].stage = "routed" /\ code = Some(0)
       ELSE code # Some(0)
    /\ ChildClose(fileId, code)

\* One step of the child process of one document.
PipelineStep(fileId) ==
    \/ \E intent \in Intents : \E extraction \in ExtractionResults :
          RouterInput(fileId, intent, extraction)
    \/ Route(fileId)
    \/ Emit(fileId)
    \/ CompleteLocal(fileId)
    \/ DispatchDelivered(fileId)
    \/ DispatchRetry(fileId)
    \/ DispatchExhausted(fileId)
    \/ Reroute(fileId)
    \/ \E code \in CloseCodes : PipelineClose(fileId, code)

\* One step of processFileWithAI up to the launch of the child.
LaunchStep(fileId) ==
    \/ Start(fileId)
    \/ LogStart(fileId)
    \/ Spawn(fileId)
    \/ SpawnThrows(fileId)
    \/ SpawnErrorEvent(fileId)
    \/ Catch(fileId)

\* The one document of this specification has the first id of the store.
RouterIds == {1}

\* The clock advances between the two runs of the router.
RouterTick ==
    /\ \E fileId \in DOMAIN router :
          router[fileId].stage = "routed" /\ router[fileId].run < 2
    /\ Tick

RouterNext ==
    \/ Upload(1, UploadNames)
    \/ \E fileId \in RouterIds : LaunchStep(fileId)
    \/ \E fileId \in RouterIds : PipelineStep(fileId)
    \/ RouterTick

\* The upload of one document, its run and the pipeline of its child.
RouterSpec == Init /\ [][RouterNext]_vars

\* ------------------------------------------ the classifier and the agents
\* The classifier and the JSON agent of the child process, after their
\* contracts in the design.

\* The largest keyword score of an intent category.
MaxScore == 2

\* The minimum score the winning category needs.
IntentThreshold == 1

\* The intent categories in their order of priority.
IntentOrder == <<"FraudRisk", "Complaint", "Regulation", "Invoice", "RFQ">>

IntentScores == [{IntentOrder[i] : i \in 1..Len(IntentOrder)} -> 0..MaxScore]

\* The documents handed to the classifier: a name and what the content
\* bears.
ClassifierNames == {<<"a", ".", "p", "d", "f">>, <<"n", ".", "t", "x", "t">>}
ClassifierDocs == [originalName : ClassifierNames, signature : UploadSignatures]

\* The format by extension, then by content signature; "Unknown" when
\* neither matches.
DetectFormat(doc) ==
    IF FileTypeOf(doc.originalName) # "unknown" THEN FileTypeOf(doc.originalName)
    ELSE IF doc.signature # "none" THEN doc.signature
    ELSE "Unknown"

\* Variant: a category that scores as high as the best so far replaces it.
RECURSIVE BestFrom_lastWins(_, _, _)
BestFrom_lastWins(scores, i, best) ==
    IF i > Len(IntentOrder) THEN best
    ELSE BestFrom_lastWins(scores, i + 1,
            IF scores[IntentOrder[i]] >= scores[best] THEN IntentOrder[i] ELSE best)

\* The scan of the categories from the i-th on, in their order: a category
\* replaces the best so far only with a higher score.
RECURSIVE BestFrom(_, _, _)
BestFrom(scores, i, best) ==
    IF i > Len(IntentOrder) THEN best
    ELSE BestFrom(scores, i + 1,
            IF scores[IntentOrder[i]] > scores[best] THEN IntentOrder[i] ELSE best)

\* The intent and its confidence: the best category, Unknown below the
\* threshold.
classifyIntent(scores) ==
    LET best == BestFrom(scores, 2, IntentOrder[1])
    IN  IF scores[best] >= IntentThreshold
        THEN [intent |-> best, confidence |-> scores[best]]
        ELSE [intent |-> "Unknown", confidence |-> scores[best]]

\* Variant: no category above the threshold is an error.
classify_raisesOnNoIntent(doc, scores) ==
    IF DetectFormat(doc) = "Unknown"
    THEN [raised |-> Some("UnrecognizedFormat"), result |-> Null]
    ELSE IF classifyIntent(scores).intent = "Unknown"
    THEN [raised |-> Some("UnrecognizedIntent"), result |-> Null]
    ELSE [raised |-> Null,
          result |-> Some([format |-> DetectFormat(doc),
                           intent |-> classifyIntent(scores).intent,
                           confidence |-> classifyIntent(scores).confidence])]

\* classify(doc): the ClassificationResult, or UnrecognizedFormat raised.
classify(doc, scores) ==
    IF DetectFormat(doc) = "Unknown"
    THEN [raised |-> Some("UnrecognizedFormat"), result |-> Null]
    ELSE [raised |-> Null,
          result |-> Some([format |-> DetectFormat(doc),
                           intent |-> classifyIntent(scores).intent,
                           confidence |-> classifyIntent(scores).confidence])]

\* The ActivityRecord of a classification.
ClassifyActivity(doc, outcome) ==
    [fileId |-> Null,
     agentName |-> "Classifier Agent",
     action |-> "Classify",
     input |-> doc,
     output |-> outcome.result,
     status |-> IF outcome.raised = Null THEN "success" ELSE "failed",
     processingTime |-> Null,
     errorMessage |-> outcome.raised]

\* The classifier runs on a document and its outcome is recorded.
Classify(doc, scores) ==
    /\ classified = Null
    /\ classified' = Some([doc |-> doc, scores |-> scores,
                           outcome |-> classify(doc, scores), record |-> currentId])
    /\ createAgentActivity(ClassifyActivity(doc, classify(doc, scores)))
    /\ UNCHANGED <<users, processedFiles, triggeredActions, systemMetrics, now, pc, exitCode,
                   responses, refused, requests, crashed, stages, sinkFailed, thrown, calls,
                   statusWrites, unrecognized, router, extracted, lastCall, uploadedFiles, uploads>>

\* The keys a payload must have.
RequiredKeys == {"amount", "currency"}

\* What the JSON agent looks at in a payload: the required keys it lacks,
\* whether its amount exceeds the rolling threshold, whether its
\* idempotency key was seen before.
JsonPayloads == [missing : SUBSET RequiredKeys, overThreshold : BOOLEAN, duplicate : BOOLEAN]

\* The anomaly flags of a payload.
JsonFlags(payload) ==
    {<<"anomaly", "schema", key>> : key \in payload.missing}
    \cup (IF payload.overThreshold THEN {<<"anomaly", "amount">>} ELSE {})
    \cup (IF payload.duplicate THEN {<<"anomaly", "duplicate">>} ELSE {})

\* Variant: the schema anomalies of a payload count as one.
jsonAgent_countsKinds(payload) ==
    LET flags == JsonFlags(payload)
        anomalies == {<<flag[1], flag[2]>> : flag \in {f \in flags : IsAnomaly(f)}}
    IN  [fields |-> "fields",
         priority |-> IF Cardinality(anomalies) >= 2 THEN "high"
                      ELSE IF Cardinality(anomalies) = 1 THEN "medium"
                      ELSE "low",
         flags |-> flags]

\* The ExtractionResult of the JSON agent.
jsonAgent(payload) ==
    LET flags == JsonFlags(payload)
        anomalies == {flag \in flags : IsAnomaly(flag)}
    IN  [fields |-> "fields",
         priority |-> IF Cardinality(anomalies) >= 2 THEN "high"
                      ELSE IF Cardinality(anomalies) = 1 THEN "medium"
                      ELSE "low",
         flags |-> flags]

\* The JSON agent runs on a payload.
JsonExtract(payload) ==
    /\ extracted = Null
    /\ extracted' = Some([payload |-> payload, result |-> jsonAgent(payload)])
    /\ UNCHANGED <<currentId, users, processedFiles, agentActivities, triggeredActions,
                   systemMetrics, now, pc, exitCode, responses, refused, requests, crashed, stages,
                   sinkFailed, thrown, calls, statusWrites, appendLog, unrecognized, router,
                   classified, lastCall, uploadedFiles, uploads>>

AgentNext ==
    \/ \E doc \in ClassifierDocs : \E scores \in IntentScores : Classify(doc, scores)
    \/ \E payload \in JsonPayloads : JsonExtract(payload)

\* The classifier and the JSON agent, each applied to any of its inputs.
AgentSpec == Init /\ [][AgentNext]_vars

\* ------------------------------------ the upload widget (FileUpload.tsx)
\* Files selected in the widget over its life.
MaxFiles == 3

\* file.name of the files the user selects.
WidgetNames ==
    { <<"a", ".", "p", "d", "f">>,
      <<"d", ".", "J", "S", "O", "N">>,
      <<"R", "E", "A", "D">> }

\* The FileList of one selection.
WidgetSelections ==
    {<<name>> : name \in WidgetNames} \cup
    {<<first, second>> : first \in WidgetNames, second \in WidgetNames}

\* file.name.split('.').pop(): the text after the last "." of the name, the
\* whole name when it has none.
LastSegment(name) ==
    LET dots == {i \in 1..Len(name) : name[i] = "."}
    IN  IF dots = {} THEN name
        ELSE LET last == CHOOSE i \in dots : \A j \in dots : j <= i
             IN  SubSeq(name, last + 1, Len(name))

\* allowedTypes.includes('.' + file.name.split('.').pop()?.toLowerCase())
allowedTypes == {<<".", "p", "d", "f">>, <<".", "e", "m", "l">>,
                 <<".", "m", "s", "g">>, <<".", "j", "s", "o", "n">>}
IsAllowed(name) == (<<".">> \o toLowerCase(LastSegment(name))) \in allowedTypes

\* validFiles: the allowed files of the selection, in their order.
validFiles(files) == SelectSeq(files, IsAllowed)

\* prev.map(f => f.name === name ? { ...f, status, progress } : f)
MarkByName(prev, name, status, progress) ==
    [i \in 1..Len(prev) |->
        IF prev[i].name = name
        THEN Spread(prev[i], [status |-> status, progress |-> progress])
        ELSE prev[i]]

\* handleFileSelect(files): one queue entry and one uploadMutation.mutate
\* per allowed file; the new entries go to the front of the queue.  The id
\* of an entry (Date.now() + Math.random()) is the number of its upload.
handleFileSelect(files) ==
    LET valid == validFiles(files)
        newFiles == [k \in 1..Len(valid) |->
                        [id |-> Len(uploads) + k,
                         name |-> valid[k],
                         status |-> "uploading",
                         progress |-> 0]]
        started == [k \in 1..Len(valid) |->
                        [id |-> Len(uploads) + k,
                         name |-> valid[k],
                         state |-> "pending",
                         timer |-> "none"]]
    IN  /\ Len(uploads) + Len(files) <= MaxFiles
        /\ uploadedFiles' = newFiles \o uploadedFiles
        /\ uploads' = uploads \o started
        /\ UNCHANGED <<storeVars, now, runVars, statusWrites, appendLog, unrecognized, router,
                       agentVars, lastCall>>

\* onSuccess(data, file): the request of upload i was answered with success.
onSuccess(i) ==
    /\ i \in 1..Len(uploads)
    /\ uploads[i].state = "pending"
    /\ uploadedFiles' = MarkByName(uploadedFiles, uploads[i].name, "processing", 50)
    /\ uploads' = [uploads EXCEPT ![i] = Spread(@, [state |-> "success", timer |-> "armed"])]
    /\ UNCHANGED <<storeVars, now, runVars, statusWrites, appendLog, unrecognized, router,
                   agentVars, lastCall>>

\* The callback of setTimeout(..., 3000) that onSuccess of upload i armed.
completionTimer(i) ==
    /\ i \in 1..Len(uploads)
    /\ uploads[i].timer = "armed"
    /\ uploadedFiles' = MarkByName(uploadedFiles, uploads[i].name, "completed", 100)
    /\ uploads' = [uploads EXCEPT ![i] = Spread(@, [timer |-> "fired"])]
    /\ UNCHANGED <<storeVars, now, runVars, statusWrites, appendLog, unrecognized, router,
                   agentVars, lastCall>>

\* onError(error, file): the request of upload i failed.
onError(i) ==
    /\ i \in 1..Len(uploads)
    /\ uploads[i].state = "pending"
    /\ uploadedFiles' = MarkByName(uploadedFiles, uploads[i].name, "failed", 0)
    /\ uploads' = [uploads EXCEPT ![i] = Spread(@, [state |-> "error"])]
    /\ UNCHANGED <<storeVars, now, runVars, statusWrites, appendLog, unrecognized, router,
                   agentVars, lastCall>>

WidgetNext ==
    \/ \E files \in WidgetSelections : handleFileSelect(files)
    \/ \E i \in 1..MaxFiles : onSuccess(i)
    \/ \E i \in 1..MaxFiles : completionTimer(i)
    \/ \E i \in 1..MaxFiles : onError(i)

\* The widget under any selections and any outcomes of its uploads.
WidgetSpec == Init /\ [][WidgetNext]_vars

\* ======================================================== properties
Terminal(fileId) ==
    /\ fileId \in DOMAIN processedFiles
    /\ processedFiles[fileId].status \in {"completed", "failed"}

Started(fileId) == fileId \in DOMAIN pc /\ pc[fileId] # "created"

Blocked(fileId) == fileId \in DOMAIN pc /\ pc[fileId] = "blocked"

\* The run of the document has ended.
Ended(fileId) == fileId \in DOMAIN pc /\ pc[fileId] \in {"done", "unhandled"}

\* The run of the document has ended in a failure: through the catch block
\* or with a close code other than 0.
FailedRun(fileId) ==
    /\ Ended(fileId)
    /\ fileId \in DOMAIN exitCode => exitCode[fileId] # Some(0)

ActivitiesOf(fileId) == {id \in DOMAIN agentActivities : agentActivities[id].fileId = fileId}

ActionsOf(fileId) == {id \in DOMAIN triggeredActions : triggeredActions[id].fileId = fileId}

\* C1: every document whose processing has been started eventually has
\* status completed or failed, whatever the outcome of the child process
\* (a child that never exits is not among the outcomes of the claim).
C1_EventuallyTerminal ==
    \A fileId \in FileIds : [](Started(fileId) => <>(Terminal(fileId) \/ Blocked(fileId)))

\* C2: a document whose processing failed has status failed and an
\* ActivityRecord of its own with status failed and an error message.
C2_FailureRecorded ==
    \A fileId \in DOMAIN pc :
        FailedRun(fileId) =>
            /\ processedFiles[fileId].status = "failed"
            /\ \E id \in ActivitiesOf(fileId) :
                  /\ agentActivities[id].status = "failed"
                  /\ agentActivities[id].errorMessage # Null

\* C3: a document with status completed or failed has at least one
\* ActivityRecord, and as many ActivityRecords as stages its run entered.
C3_RecordPerStage ==
    \A fileId \in DOMAIN pc :
        Terminal(fileId) =>
            /\ Cardinality(ActivitiesOf(fileId)) >= 1
            /\ Cardinality(ActivitiesOf(fileId)) = stages[fileId]

\* C4: the status of a document is one of the four values, and the statuses
\* written to it are pending, then processing, then completed or failed,
\* each once and nothing after.
C4_StatusWrittenOnce ==
    \A fileId \in DOMAIN processedFiles :
        /\ processedFiles[fileId].status \in {"pending", "processing", "completed", "failed"}
        /\ processedFiles[fileId].status = statusWrites[fileId][Len(statusWrites[fileId])]
        /\ statusWrites[fileId] \in
              { <<"pending">>,
                <<"pending", "processing">>,
                <<"pending", "processing", "completed">>,
                <<"pending", "processing", "failed">> }

C4_Witness ==
    \E fileId \in DOMAIN pc :
        /\ pc[fileId] = "done"
        /\ fileId \in DOMAIN exitCode
        /\ statusWrites[fileId] = <<"pending", "processing", "failed">>

\* C5: the child process of a document is never launched unless the Start
\* Processing ActivityRecord of that document is in the store.
C5_RecordBeforeSpawn ==
    \A fileId \in DOMAIN pc :
        (pc[fileId] \in {"running", "blocked", "launchfail"} \/ fileId \in DOMAIN exitCode) =>
            \E id \in ActivitiesOf(fileId) : agentActivities[id].action = "Start Processing"

C5_Witness ==
    \E fileId \in DOMAIN pc :
        /\ pc[fileId] = "running"
        /\ \E id \in ActivitiesOf(fileId) : agentActivities[id].action = "Start Processing"

\* C6: once a store write of a run has been rejected, the child process of
\* that document is not started and the document ends with status failed.
C6_HaltsAndFails ==
    \A fileId \in sinkFailed :
        /\ fileId \in DOMAIN exitCode \/ pc[fileId] \notin {"running", "blocked", "launchfail"}
        /\ Ended(fileId) => processedFiles[fileId].status = "failed"

\* C7: every step keeps every ActivityRecord in the store with its
\* agentName, action, input, output and fileId; its status either stays or
\* moves from pending to a final status.
C7_AppendOnly ==
    [][\A id \in DOMAIN agentActivities :
          /\ id \in DOMAIN agentActivities'
          /\ agentActivities'[id].agentName = agentActivities[id].agentName
          /\ agentActivities'[id].action = agentActivities[id].action
          /\ agentActivities'[id].input = agentActivities[id].input
          /\ agentActivities'[id].output = agentActivities[id].output
          /\ agentActivities'[id].fileId = agentActivities[id].fileId
          /\ \/ agentActivities'[id].status = agentActivities[id].status
             \/ /\ agentActivities[id].status = "pending"
                /\ agentActivities'[id].status \in {"success", "failed"}]_vars

C7_Witness ==
    /\ \E id \in DOMAIN agentActivities : agentActivities[id].action = "Start Processing"
    /\ \E id \in DOMAIN agentActivities : agentActivities[id].action = "Extract Fields"
    /\ \E fileId \in DOMAIN pc : pc[fileId] = "done"

\* The appends of one log, in order.
Appends(log) == SelectSeq(appendLog, LAMBDA e : e.log = log)

\* The record the store holds for an append is the record that was handed
\* over, under the id it was given.
Stored(store, e) ==
    /\ e.id \in DOMAIN store
    /\ store[e.id].id = e.id
    /\ \A k \in DOMAIN e.record : store[e.id][k] = e.record[k]

\* The step appends e to store: one new record under a new id, the record
\* handed over, and every other record as it was.
AppendsOne(store, storeAfter, e) ==
    /\ e.id \notin DOMAIN store
    /\ DOMAIN storeAfter = DOMAIN store \cup {e.id}
    /\ Stored(storeAfter, e)
    /\ \A id \in DOMAIN store : storeAfter[id] = store[id]

\* C8: n appends to the activity log and the action log leave n records, and
\* every append adds exactly one record, the complete record handed over,
\* and leaves every other record of both logs as it was.
C8_AtomicAppends ==
    /\ [](/\ Len(Appends("activity")) = Cardinality(DOMAIN agentActivities)
          /\ Len(Appends("action")) = Cardinality(DOMAIN triggeredActions))
    /\ [][appendLog' # appendLog =>
            LET e == appendLog'[Len(appendLog')]
            IN  /\ appendLog' = Append(appendLog, e)
                /\ IF e.log = "activity"
                   THEN /\ AppendsOne(agentActivities, agentActivities', e)
                        /\ triggeredActions' = triggeredActions
                   ELSE /\ AppendsOne(triggeredActions, triggeredActions', e)
                        /\ agentActivities' = agentActivities]_vars

C8_Witness ==
    /\ Len(Appends("activity")) >= 2
    /\ Len(Appends("action")) >= 1
    /\ \E fileId \in DOMAIN pc : pc[fileId] = "running"

\* C9: while the child of one document is blocked, every other uploaded
\* document is still brought to status completed or failed.
C9_BlockedChildDoesNotHold ==
    \A blocked \in FileIds : \A fileId \in FileIds \ {blocked} :
        []((Blocked(blocked) /\ fileId \in DOMAIN pc) => <>(Terminal(fileId) \/ Blocked(fileId)))

\* The store shows how the run of the document ended.
Observable(fileId) ==
    \/ Terminal(fileId)
    \/ \E id \in ActivitiesOf(fileId) : agentActivities[id].status \in {"success", "failed"}
    \/ ActionsOf(fileId) # {}

\* C10: the upload is answered with 200 as soon as the run has taken its
\* first step, whatever the run does later, and the outcome of every ended
\* run can be read from the store.
C10_FireAndForget ==
    \A fileId \in DOMAIN pc :
        /\ Started(fileId) => fileId \in DOMAIN responses /\ responses[fileId] = 200
        /\ Ended(fileId) => Observable(fileId)

\* C11: every uploaded document whose format is not recognized is answered
\* as unrecognized and is in the store as a document of status failed.
C11_UnrecognizedRecorded ==
    /\ unrecognized # {} => refused[400] >= 1
    /\ \A u \in unrecognized :
          \E id \in DOMAIN processedFiles :
              /\ processedFiles[id].originalName = u.originalName
              /\ processedFiles[id].status = "failed"

\* C12: the extensions .pdf, .eml, .msg and .json, in any case, are detected
\* as PDF, Email, Email and JSON; no stored document has an unknown type;
\* and no upload whose content bears the signature of a supported format
\* is refused as unrecognized, whatever its name.
C12_DetectsSupported ==
    /\ FileTypeOf(<<"a", ".", "p", "d", "f">>) = "PDF"
    /\ FileTypeOf(<<"A", ".", "P", "D", "F">>) = "PDF"
    /\ FileTypeOf(<<"m", ".", "e", "m", "l">>) = "Email"
    /\ FileTypeOf(<<"m", ".", "E", "M", "L">>) = "Email"
    /\ FileTypeOf(<<"m", ".", "m", "s", "g">>) = "Email"
    /\ FileTypeOf(<<"d", ".", "j", "s", "o", "n">>) = "JSON"
    /\ \A id \in DOMAIN processedFiles :
          processedFiles[id].fileType \in {"PDF", "Email", "JSON"}
    /\ \A u \in unrecognized : u.signature \notin {"PDF", "Email", "JSON"}

\* The run of the router over the document has emitted its ActionRecords.
RunEmitted(fileId, run) ==
    /\ fileId \in DOMAIN router
    /\ \/ run < router[fileId].run
       \/ run = router[fileId].run /\ router[fileId].stage \in {"dispatch", "routed"}

\* The action types of the ActionRecords that run appended to the store.
TypesOfRun(fileId, run) ==
    {triggeredActions[id].actionType : id \in router[fileId].emitted[run]}

HasAnomaly(fileId) == \E flag \in router[fileId].extraction.flags : IsAnomaly(flag)

\* C13: whatever the intent and the flags, every run of the router on an
\* ExtractionResult of priority high appends an escalate action.
C13_HighEscalates ==
    \A fileId \in DOMAIN router : \A run \in 1..2 :
        (RunEmitted(fileId, run) /\ router[fileId].extraction.priority = "high") =>
            "escalate" \in TypesOfRun(fileId, run)

C13_Witness ==
    \E fileId \in DOMAIN router :
        /\ RunEmitted(fileId, 1)
        /\ router[fileId].extraction.priority = "high"
        /\ router[fileId].intent = "FraudRisk"
        /\ TypesOfRun(fileId, 1) = {"escalate", "alert"}

\* C14: whatever the priority and the flags, every run of the router on the
\* intent FraudRisk appends an alert action.
C14_FraudAlerts ==
    \A fileId \in DOMAIN router : \A run \in 1..2 :
        (RunEmitted(fileId, run) /\ router[fileId].intent = "FraudRisk") =>
            "alert" \in TypesOfRun(fileId, run)

C14_Witness ==
    \E fileId \in DOMAIN router :
        /\ RunEmitted(fileId, 1)
        /\ router[fileId].intent = "FraudRisk"
        /\ router[fileId].extraction.priority = "low"
        /\ router[fileId].extraction.flags = {}
        /\ TypesOfRun(fileId, 1) = {"alert"}

\* C15: a run of the router appends a flag action whenever a flag of the
\* ExtractionResult matches anomaly:*, and a log action exactly when the
\* priority is not high, the intent is not FraudRisk and no flag is an
\* anomaly; the log action is then the only one.
C15_FlagAndLog ==
    \A fileId \in DOMAIN router : \A run \in 1..2 :
        RunEmitted(fileId, run) =>
            /\ HasAnomaly(fileId) => "flag" \in TypesOfRun(fileId, run)
            /\ "log" \in TypesOfRun(fileId, run) <=>
                  /\ router[fileId].extraction.priority # "high"
                  /\ router[fileId].intent # "FraudRisk"
                  /\ ~HasAnomaly(fileId)
            /\ "log" \in TypesOfRun(fileId, run) => TypesOfRun(fileId, run) = {"log"}

C15_Witness ==
    \E fileId \in DOMAIN router :
        /\ RunEmitted(fileId, 1)
        /\ processedFiles[fileId].fileType = "PDF"
        /\ router[fileId].intent = "Invoice"
        /\ router[fileId].extraction.priority = "low"
        /\ router[fileId].extraction.flags = {<<"risk", "high-value">>}
        /\ TypesOfRun(fileId, 1) = {"log"}

Exhausted(fileId, id) ==
    /\ router[fileId].attempts[id] = DispatchAttempts
    /\ triggeredActions[id].status # "completed"

\* C17: no dispatch is attempted more than DispatchAttempts times; when all
\* attempts failed the ActionRecord has status failed, an ActivityRecord of
\* the document carries the error, and the document is not failed: once its
\* run has ended its status is completed.
C17_DispatchBounded ==
    \A fileId \in DOMAIN router : \A id \in DOMAIN router[fileId].attempts :
        /\ router[fileId].attempts[id] <= DispatchAttempts
        /\ Exhausted(fileId, id) =>
              /\ triggeredActions[id].status = "failed"
              /\ \E a \in ActivitiesOf(fileId) :
                    /\ agentActivities[a].status = "failed"
                    /\ agentActivities[a].errorMessage # Null
              /\ processedFiles[fileId].status # "failed"
              /\ Ended(fileId) => processedFiles[fileId].status = "completed"

C18_TerminalActions ==
    [][\A id \in DOMAIN triggeredActions :
          triggeredActions[id].status \in {"completed", "failed"} =>
              triggeredActions'[id].status = triggeredActions[id].status]_vars

\* C20: no step of the upload route and of processFileWithAI (the steps
\* that are not direct calls of the store) lowers the stored priority of a
\* document.
C20_PriorityOnlyRises ==
    [][calls' = calls =>
          \A id \in DOMAIN processedFiles :
              Rank(processedFiles'[id].priority) >= Rank(processedFiles[id].priority)]_vars

C20_Witness ==
    \E fileId \in DOMAIN pc :
        /\ pc[fileId] = "done"
        /\ processedFiles[fileId].status = "failed"
        /\ processedFiles[fileId].priority = "high"

\* The place of an intent category in the order of priority.
IntentPlace(intent) == CHOOSE i \in 1..Len(IntentOrder) : IntentOrder[i] = intent

\* The categories that reach the highest score of scores.
TopIntents(scores) ==
    {c \in DOMAIN scores : \A d \in DOMAIN scores : scores[d] <= scores[c]}

\* C21: when the highest score reaches the threshold, the intent of the
\* classification is the category that comes first in the order FraudRisk,
\* Complaint, Regulation, Invoice, RFQ among those that reach it; a tie of
\* FraudRisk and Complaint at the top gives FraudRisk.
C21_TieBreak ==
    (classified # Null /\ classified[1].outcome.result # Null) =>
        LET scores == classified[1].scores
            intent == classified[1].outcome.result[1].intent
            top == TopIntents(scores)
        IN  (\E c \in top : scores[c] >= IntentThreshold) =>
                /\ intent \in top
                /\ \A c \in top : IntentPlace(intent) <= IntentPlace(c)
                /\ {"FraudRisk", "Complaint"} \subseteq top => intent = "FraudRisk"

C21_Witness ==
    /\ classified # Null
    /\ classified[1].outcome.result # Null
    /\ classified[1].scores["FraudRisk"] = 1
    /\ classified[1].scores["Complaint"] = 1
    /\ classified[1].scores["RFQ"] = 1
    /\ classified[1].scores["Regulation"] = 0
    /\ classified[1].outcome.result[1].intent = "FraudRisk"

\* C22: a document of a recognized format whose scores are all below the
\* threshold is classified, with intent Unknown, and no error is raised; its
\* ActivityRecord has status success and no error message, while the record
\* of a classification that failed has status failed and the error.
C22_UnknownIntentIsNoFailure ==
    classified # Null =>
        LET c == classified[1]
            record == agentActivities[c.record]
        IN  /\ (/\ DetectFormat(c.doc) # "Unknown"
                /\ \A k \in DOMAIN c.scores : c.scores[k] < IntentThreshold) =>
                  /\ c.outcome.raised = Null
                  /\ c.outcome.result # Null
                  /\ c.outcome.result[1].intent = "Unknown"
                  /\ record.status = "success"
                  /\ record.errorMessage = Null
                  /\ record.output = c.outcome.result
            /\ DetectFormat(c.doc) = "Unknown" =>
                  /\ c.outcome.raised # Null
                  /\ record.status = "failed"
                  /\ record.errorMessage # Null

C22_Witness ==
    /\ classified # Null
    /\ classified[1].doc.signature = "PDF"
    /\ \A k \in DOMAIN classified[1].scores : classified[1].scores[k] = 0
    /\ classified[1].outcome.result # Null
    /\ classified[1].outcome.result[1].intent = "Unknown"
    /\ agentActivities[classified[1].record].status = "success"

\* The anomaly flags of an ExtractionResult.
AnomaliesOf(result) == {flag \in result.flags : IsAnomaly(flag)}

\* C23: the ExtractionResult of the JSON agent has a flag anomaly:schema:key
\* for every required key the payload lacks, a priority of at least medium
\* when it has an anomaly flag and priority high when it has two or more.
C23_AnomaliesRaisePriority ==
    extracted # Null =>
        LET result == extracted[1].result
        IN  /\ \A key \in extracted[1].payload.missing :
                  <<"anomaly", "schema", key>> \in result.flags
            /\ Cardinality(AnomaliesOf(result)) >= 1 =>
                  Rank(result.priority) >= Rank("medium")
            /\ Cardinality(AnomaliesOf(result)) >= 2 => result.priority = "high"

C23_Witness ==
    /\ extracted # Null
    /\ extracted[1].payload.missing = {"amount", "currency"}
    /\ ~extracted[1].payload.overThreshold
    /\ ~extracted[1].payload.duplicate
    /\ extracted[1].result.priority = "high"

\* How far the run of a document has come.
PcRank(position) ==
    IF position = "created" THEN 0
    ELSE IF position = "log" THEN 1
    ELSE IF position = "spawn" THEN 2
    ELSE IF position \in {"running", "catch", "launchfail"} THEN 3
    ELSE 4

StartRecords(fileId) ==
    {id \in ActivitiesOf(fileId) : agentActivities[id].action = "Start Processing"}

\* C24: the run of a document is started once (status processing is written
\* once, one Start Processing record, at most two stages), no run goes back
\* to an earlier position, and nothing is done any more for a document
\* whose status is failed.
C24_NoRetry ==
    /\ [](\A fileId \in DOMAIN pc :
            /\ Cardinality(StartRecords(fileId)) <= 1
            /\ Len(SelectSeq(statusWrites[fileId], LAMBDA w : w = "processing")) <= 1
            /\ stages[fileId] <= 2)
    /\ [][\A fileId \in DOMAIN pc :
            /\ PcRank(pc'[fileId]) >= PcRank(pc[fileId])
            /\ processedFiles[fileId].status = "failed" =>
                  /\ pc'[fileId] = pc[fileId]
                  /\ processedFiles'[fileId] = processedFiles[fileId]
                  /\ {id \in DOMAIN agentActivities' : agentActivities'[id].fileId = fileId}
                        = ActivitiesOf(fileId)]_vars

C24_Witness ==
    \E fileId \in DOMAIN pc : \E other \in DOMAIN pc :
        /\ other # fileId
        /\ processedFiles[fileId].status = "failed"
        /\ fileId \in DOMAIN exitCode
        /\ Cardinality(StartRecords(fileId)) = 1
        /\ pc[other] = "done"

SupportedExtensions ==
    { <<".", "p", "d", "f">>, <<".", "e", "m", "l">>,
      <<".", "m", "s", "g">>, <<".", "j", "s", "o", "n">> }

\* C25: the uploads refused as unsupported are those whose extension is not
\* .pdf, .eml, .msg or .json; every request is either answered 400 or has
\* its document in the store; and the step that refuses an upload answers 400
\* and changes neither the store nor the runs.
C25_RejectedUploadLeavesStore ==
    /\ [](/\ \A u \in unrecognized :
                toLowerCase(extname(u.originalName)) \notin SupportedExtensions
          /\ \A id \in DOMAIN processedFiles :
                toLowerCase(extname(processedFiles[id].originalName)) \in SupportedExtensions
          /\ refused[500] = 0
          /\ refused[400] + Cardinality(DOMAIN processedFiles) = requests
          /\ DOMAIN pc = DOMAIN processedFiles)
    /\ [][refused' # refused =>
            /\ refused'[400] = refused[400] + 1
            /\ requests' = requests + 1
            /\ UNCHANGED <<storeVars, pc, stages, statusWrites, appendLog>>]_vars

C25_Witness ==
    /\ refused[400] = 2
    /\ Cardinality(unrecognized) = 1
    /\ requests = 2
    /\ processedFiles = <<>>
    /\ agentActivities = <<>>

\* C26: a step of the run of document A (a step that moves pc[A]) leaves
\* the processed-file record of every other document as it was and appends
\* only ActivityRecords of A.
C26_RunWritesOwnDocument ==
    [][\A A \in DOMAIN pc :
          pc'[A] # pc[A] =>
              /\ \A B \in DOMAIN processedFiles \ {A} :
                    processedFiles'[B] = processedFiles[B]
              /\ \A id \in DOMAIN agentActivities' \ DOMAIN agentActivities :
                    agentActivities'[id].fileId = A
              /\ \A id \in DOMAIN agentActivities :
                    agentActivities'[id] = agentActivities[id]]_vars

C26_Witness ==
    \E A \in DOMAIN pc : \E B \in DOMAIN pc :
        /\ A < B
        /\ pc[A] = "running"
        /\ pc[B] = "done"
        /\ processedFiles[A].status = "processing"
        /\ processedFiles[B].status = "failed"
        /\ \E a \in ActivitiesOf(A) : \E b \in ActivitiesOf(B) : b < a

\* The ids of the records of all five maps.
AllIds ==
    DOMAIN users \cup DOMAIN processedFiles \cup DOMAIN agentActivities
        \cup DOMAIN triggeredActions \cup DOMAIN systemMetrics

\* C27: no two records of the store, of the same or of different kinds,
\* have the same id; every record carries its id; the ids handed out are
\* 1, 2, ... without a gap; and the id of every new record is greater than
\* every id handed out before.
C27_UniqueIncreasingIds ==
    /\ [](/\ Cardinality(AllIds) =
                Cardinality(DOMAIN users) + Cardinality(DOMAIN processedFiles)
                    + Cardinality(DOMAIN agentActivities)
                    + Cardinality(DOMAIN triggeredActions)
                    + Cardinality(DOMAIN systemMetrics)
          /\ AllIds = 1..(currentId - 1)
          /\ \A id \in DOMAIN users : users[id].id = id
          /\ \A id \in DOMAIN processedFiles : processedFiles[id].id = id
          /\ \A id \in DOMAIN agentActivities : agentActivities[id].id = id
          /\ \A id \in DOMAIN triggeredActions : triggeredActions[id].id = id
          /\ \A id \in DOMAIN systemMetrics : systemMetrics[id].id = id)
    /\ [][/\ AllIds \subseteq AllIds'
          /\ \A id \in AllIds' \ AllIds : \A old \in AllIds : old < id
          /\ Cardinality(AllIds' \ AllIds) <= 1]_vars

C27_Witness ==
    /\ DOMAIN users # {}
    /\ DOMAIN processedFiles # {}
    /\ DOMAIN triggeredActions # {}
    /\ currentId = 4

\* The update call leaves the record of id in store with the fields named
\* in updates set and every other field and record as it was.
UpdatesOnly(store, storeAfter, id, updates) ==
    /\ DOMAIN storeAfter = DOMAIN store
    /\ \A other \in DOMAIN store \ {id} : storeAfter[other] = store[other]
    /\ DOMAIN storeAfter[id] = DOMAIN store[id]
    /\ \A k \in DOMAIN store[id] :
          storeAfter[id][k] = IF k \in DOMAIN updates THEN updates[k] ELSE store[id][k]

\* C28: a direct call of updateProcessedFile or updateTriggeredAction with
\* an id that is not in its map throws and changes no map; with an id of
\* the map it does not throw, sets the fields named in the update and leaves
\* every other field, every other record and every other map as it was.
C28_UpdateFrame ==
    [][(calls' = calls + 1 /\ lastCall' # Null) =>
          LET call == lastCall'[1]
          IN  /\ UNCHANGED <<currentId, users, agentActivities, systemMetrics>>
              /\ IF call.op = "updateProcessedFile"
                 THEN /\ triggeredActions' = triggeredActions
                      /\ IF call.id \in DOMAIN processedFiles
                         THEN /\ ~thrown'
                              /\ UpdatesOnly(processedFiles, processedFiles', call.id, call.updates)
                         ELSE thrown' /\ processedFiles' = processedFiles
                 ELSE /\ processedFiles' = processedFiles
                      /\ IF call.id \in DOMAIN triggeredActions
                         THEN /\ ~thrown'
                              /\ UpdatesOnly(triggeredActions, triggeredActions', call.id, call.updates)
                         ELSE thrown' /\ triggeredActions' = triggeredActions]_vars

C28_Witness ==
    /\ lastCall # Null
    /\ lastCall[1].op = "updateTriggeredAction"
    /\ ~thrown
    /\ Cardinality(DOMAIN triggeredActions) = 2
    /\ triggeredActions[lastCall[1].id].status = "failed"
    /\ triggeredActions[lastCall[1].id].actionType = "escalate"
    /\ \E id \in DOMAIN triggeredActions : triggeredActions[id].status = "pending"

\* The queries of the audit trail: without a document, or with one of the
\* documents, and the limits.
TrailQueries == {Null} \cup {Some(fileId) : fileId \in 1..MaxRequests}
TrailLimits == 1..4

\* C29: getAgentActivities lists a record that was appended after another
\* one before it, also when both carry the same timestamp; with a fileId
\* the result holds only records of that document, at most limit of them.
C29_NewestFirstCausal ==
    \A fileId \in TrailQueries : \A limit \in TrailLimits :
        LET result == getAgentActivities(fileId, limit)
        IN  /\ \A i, j \in 1..Len(result) : result[i].id > result[j].id => i < j
            /\ Len(result) <= limit
            /\ fileId # Null => \A i \in 1..Len(result) : result[i].fileId = fileId[1]

\* The part of C29 that the sort gives: newest timestamp first, only the
\* records of the document, at most limit of them.
C29_NewestTimestampFirst ==
    \A fileId \in TrailQueries : \A limit \in TrailLimits :
        LET result == getAgentActivities(fileId, limit)
        IN  /\ \A i, j \in 1..Len(result) :
                  result[i].timestamp > result[j].timestamp => i < j
            /\ Len(result) <= limit
            /\ fileId # Null => \A i \in 1..Len(result) : result[i].fileId = fileId[1]

\* The queue entry of upload i.
EntryOf(queue, i) == queue[CHOOSE k \in 1..Len(queue) : queue[k].id = i]

\* C30: the status of a queue entry changes only in a step of its own
\* upload (its success, its failure or its completion timer), also when
\* two queued files have the same name, and an entry marked failed is
\* never later shown as completed.
C30_OwnOutcomeOnly ==
    [][\A i \in 1..Len(uploads) :
          LET before == EntryOf(uploadedFiles, i)
              after == EntryOf(uploadedFiles', i)
          IN  /\ after.status # before.status => uploads'[i] # uploads[i]
              /\ before.status = "failed" => after.status # "completed"]_vars

====
